---- MODULE Spec2Model ----
(***************************************************************************)
(* corpustools: the ternary search tree (tst.py) that stores counts for    *)
(* n-grams and their subsequences, and the n-gram LanguageModel            *)
(* (language_model.py) that trains it from token streams.                  *)
(*                                                                         *)
(* Strings are sequences of character codes (code points), so that the     *)
(* tree's character comparisons (==, <) are the ones of the code.  A token *)
(* is a non-empty string that does not contain the split character; an     *)
(* n-gram is a sequence of tokens.                                         *)
(***************************************************************************)
EXTENDS Integers, Sequences, FiniteSets, TLC

\* ------------------------------------------------------------------ bounds
\* largest n-gram order n a model is constructed with
MaxN == 3
\* tokens (boundary tokens included) passed to one model, all calls together:
\* by train in its sequences, and by insert / insert_sequence in their
\* n-grams, an n-gram of frequency f counting f times
MaxTokens == 4
\* train, insert and insert_sequence calls on one model
MaxCalls == 2
\* insert calls on a stand-alone tree
MaxInserts == 3
\* characters inserted into a stand-alone tree, all keys together
MaxChars == 5
\* tokens of an n-gram passed to insert / insert_sequence
MaxGram == 2
\* largest frequency passed to insert
MaxWeight == 2
\* keys of a Counter given to median_split_vocabulary
MaxKeys == 4
\* largest count in a Counter given to median_split_vocabulary
MaxCount == 5
\* queries made of one model
MaxQueries == 1

\* ---------------------------------------------------------------- the state
\* lm:      the LanguageModel's configuration
VARIABLE lm

\* ------------------------------------------------------- program constants
\* self.splitchar: the split character the model was constructed with and
\* constructed its tree with ("#", code point 35, by default)
splitchar == lm.splitchar
\* the absent child / the empty tree
None == 0

\* boundary="</s>"
boundary == <<60, 47, 115, 62>>

\* the tokens "A", "B", "C", "D", "E" of the train docstring and "AB"
A == <<65>>
B == <<66>>
C == <<67>>
D == <<68>>
E == <<69>>
AB == <<65, 66>>

\* ContainsEverything(): the container used when vocabulary / targets is not
\* given; a given container is the set of its items
ContainsEverything == [everything |-> TRUE, items |-> {}]

\* a container holding exactly the given items (None and set() hold nothing)
Container(items) == [everything |-> FALSE, items |-> items]

\* item in container
Contains(container, item) ==
    container.everything \/ item \in container.items

\* bool(container)
Truthy(container) ==
    container.everything \/ container.items # {}

\* ------------------------------------------------------------ Node and TST
\* Node(char): count 0 and no children
Node(char) ==
    [char |-> char, count |-> 0, lo |-> None, eq |-> None, hi |-> None]

\* TernarySearchTree(): no root, total 0; nodes is the heap of Node objects,
\* a node's identity is its index in it
TernarySearchTree ==
    [root |-> None, total |-> 0, nodes |-> <<>>]

\* the tree's weighted _insert(string, node, frequency, subsequences) of the
\* compiled extension: frequency is added at the terminal node and, with
\* subsequences, at every node followed by the split character
RECURSIVE _insert_weighted(_, _, _, _, _)
_insert_weighted(string, node, nodes, frequency, subsequences) ==
    IF string = <<>>
    THEN [node |-> node, nodes |-> nodes]
    ELSE LET char == Head(string)
             rest == Tail(string)
             created == IF node = None THEN Append(nodes, Node(char)) ELSE nodes
             this == IF node = None THEN Len(created) ELSE node
         IN  IF char = created[this].char
             THEN IF rest = <<>>
                  THEN [node |-> this,
                        nodes |-> [created EXCEPT ![this].count = @ + frequency]]
                  ELSE LET counted == IF subsequences /\ rest[1] = splitchar
                                      THEN [created EXCEPT
                                                ![this].count = @ + frequency]
                                      ELSE created
                           r == _insert_weighted(rest, counted[this].eq, counted,
                                                 frequency, subsequences)
                       IN  [node |-> this,
                            nodes |-> [r.nodes EXCEPT ![this].eq = r.node]]
             ELSE IF char < created[this].char
             THEN LET r == _insert_weighted(string, created[this].lo, created,
                                            frequency, subsequences)
                  IN  [node |-> this,
                       nodes |-> [r.nodes EXCEPT ![this].lo = r.node]]
             ELSE LET r == _insert_weighted(string, created[this].hi, created,
                                            frequency, subsequences)
                  IN  [node |-> this,
                       nodes |-> [r.nodes EXCEPT ![this].hi = r.node]]

\* the tree's insert(string, frequency, subsequences) of the compiled
\* extension; total counts the top-level insert calls
tst_insert_weighted(tree, string, frequency, subsequences) ==
    LET r == _insert_weighted(string, tree.root, tree.nodes,
                              frequency, subsequences)
    IN  [root |-> r.node, total |-> tree.total + 1, nodes |-> r.nodes]

\* _insert without the count of the subsequences
_insert_terminal_only(string, node, nodes) ==
    _insert_weighted(string, node, nodes, 1, FALSE)

\* _insert that descends to hi for a smaller character and to lo for a
\* greater one
RECURSIVE _insert_swapped(_, _, _)
_insert_swapped(string, node, nodes) ==
    IF string = <<>>
    THEN [node |-> node, nodes |-> nodes]
    ELSE LET char == Head(string)
             rest == Tail(string)
             created == IF node = None THEN Append(nodes, Node(char)) ELSE nodes
             this == IF node = None THEN Len(created) ELSE node
         IN  IF char = created[this].char
             THEN IF rest = <<>>
                  THEN [node |-> this,
                        nodes |-> [created EXCEPT ![this].count = @ + 1]]
                  ELSE LET counted == IF rest[1] = splitchar
                                      THEN [created EXCEPT ![this].count = @ + 1]
                                      ELSE created
                           r == _insert_swapped(rest, counted[this].eq, counted)
                       IN  [node |-> this,
                            nodes |-> [r.nodes EXCEPT ![this].eq = r.node]]
             ELSE IF char < created[this].char
             THEN LET r == _insert_swapped(string, created[this].hi, created)
                  IN  [node |-> this,
                       nodes |-> [r.nodes EXCEPT ![this].hi = r.node]]
             ELSE LET r == _insert_swapped(string, created[this].lo, created)
                  IN  [node |-> this,
                       nodes |-> [r.nodes EXCEPT ![this].lo = r.node]]

\* _insert(string, node): the node returned and the heap after the call
RECURSIVE _insert(_, _, _)
_insert(string, node, nodes) ==
    IF string = <<>>
    THEN [node |-> node, nodes |-> nodes]
    ELSE LET char == Head(string)
             rest == Tail(string)
             created == IF node = None THEN Append(nodes, Node(char)) ELSE nodes
             this == IF node = None THEN Len(created) ELSE node
         IN  IF char = created[this].char
             THEN IF rest = <<>>
                  THEN [node |-> this,
                        nodes |-> [created EXCEPT ![this].count = @ + 1]]
                  ELSE LET counted == IF rest[1] = splitchar
                                      THEN [created EXCEPT ![this].count = @ + 1]
                                      ELSE created
                           r == _insert(rest, counted[this].eq, counted)
                       IN  [node |-> this,
                            nodes |-> [r.nodes EXCEPT ![this].eq = r.node]]
             ELSE IF char < created[this].char
             THEN LET r == _insert(string, created[this].lo, created)
                  IN  [node |-> this,
                       nodes |-> [r.nodes EXCEPT ![this].lo = r.node]]
             ELSE LET r == _insert(string, created[this].hi, created)
                  IN  [node |-> this,
                       nodes |-> [r.nodes EXCEPT ![this].hi = r.node]]

\* insert that does not count the call in total
tst_insert_uncounted(tree, string) ==
    LET r == _insert(string, tree.root, tree.nodes)
    IN  [root |-> r.node, total |-> tree.total, nodes |-> r.nodes]

\* TernarySearchTree.insert(string)
tst_insert(tree, string) ==
    LET r == _insert(string, tree.root, tree.nodes)
    IN  [root |-> r.node, total |-> tree.total + 1, nodes |-> r.nodes]

\* _search that does not follow lo links
RECURSIVE _search_no_lo(_, _, _)
_search_no_lo(string, node, nodes) ==
    IF string = <<>> \/ node = None
    THEN node
    ELSE LET char == Head(string)
             rest == Tail(string)
         IN  IF char = nodes[node].char
             THEN IF rest = <<>>
                  THEN node
                  ELSE _search_no_lo(rest, nodes[node].eq, nodes)
             ELSE IF char < nodes[node].char
             THEN None
             ELSE _search_no_lo(string, nodes[node].hi, nodes)

\* _search(string, node): the node that string ends in, or None
RECURSIVE _search(_, _, _)
_search(string, node, nodes) ==
    IF string = <<>> \/ node = None
    THEN node
    ELSE LET char == Head(string)
             rest == Tail(string)
         IN  IF char = nodes[node].char
             THEN IF rest = <<>>
                  THEN node
                  ELSE _search(rest, nodes[node].eq, nodes)
             ELSE IF char < nodes[node].char
             THEN _search(string, nodes[node].lo, nodes)
             ELSE _search(string, nodes[node].hi, nodes)

\* TernarySearchTree.frequency(string)
tst_frequency(tree, string) ==
    IF string = <<>>
    THEN tree.total
    ELSE LET node == _search(string, tree.root, tree.nodes)
         IN  IF node = None THEN 0 ELSE tree.nodes[node].count

\* string in tree: TernarySearchTree.__contains__(string) returns the count
\* of the node that string ends in, or False; in takes its truth value
tst_contains(tree, string) ==
    LET node == _search(string, tree.root, tree.nodes)
    IN  IF node # None THEN tree.nodes[node].count # 0 ELSE FALSE

\* node.char + completion for every (completion, frequency) of a sequence
RECURSIVE Prepend(_, _)
Prepend(prefix, pairs) ==
    IF pairs = <<>>
    THEN <<>>
    ELSE <<[completion |-> prefix \o pairs[1].completion,
            frequency |-> pairs[1].frequency]>> \o Prepend(prefix, Tail(pairs))

\* _completions(node): the (completion, frequency) pairs in the order yielded
RECURSIVE _completions(_, _)
_completions(node, nodes) ==
    IF node = None
    THEN <<>>
    ELSE LET own == IF nodes[node].count # 0
                    THEN <<[completion |-> <<nodes[node].char>>,
                            frequency |-> nodes[node].count]>>
                    ELSE <<>>
         IN  own
             \o Prepend(<<nodes[node].char>>, _completions(nodes[node].eq, nodes))
             \o _completions(nodes[node].lo, nodes)
             \o _completions(nodes[node].hi, nodes)

\* completions that steps to the eq child for the empty prefix too
tst_completions_below(tree, prefix) ==
    LET prefix_node == _search(prefix, tree.root, tree.nodes)
    IN  IF prefix_node = None
        THEN <<>>
        ELSE Prepend(prefix, _completions(tree.nodes[prefix_node].eq, tree.nodes))

\* completions that enumerates from the node the prefix ends in, without
\* stepping to its eq child
tst_completions_at(tree, prefix) ==
    LET prefix_node == _search(prefix, tree.root, tree.nodes)
    IN  IF prefix_node = None
        THEN <<>>
        ELSE Prepend(prefix, _completions(prefix_node, tree.nodes))

\* TernarySearchTree.completions(prefix), full=True, return_frequency=True
tst_completions(tree, prefix) ==
    LET prefix_node == _search(prefix, tree.root, tree.nodes)
    IN  IF prefix_node = None
        THEN <<>>
        ELSE Prepend(prefix,
                     _completions(IF prefix # <<>>
                                  THEN tree.nodes[prefix_node].eq
                                  ELSE prefix_node,
                                  tree.nodes))

\* ------------------------------------------------------------ LanguageModel
\* LanguageModel(n, splitchar=, vocabulary=, targets=, must_contain=): a
\* container that is not given (or is empty) becomes ContainsEverything for
\* vocabulary and targets and stays as it is for must_contain
LanguageModel(n, split_char, vocabulary, targets, must_contain) ==
    [n |-> n,
     splitchar |-> split_char,
     vocabulary |-> IF ~Truthy(vocabulary) THEN ContainsEverything ELSE vocabulary,
     targets |-> IF ~Truthy(targets) THEN ContainsEverything ELSE targets,
     must_contain |-> must_contain]

\* splitchar.join(n_gram)
RECURSIVE join(_)
join(n_gram) ==
    IF n_gram = <<>>
    THEN <<>>
    ELSE IF Len(n_gram) = 1
    THEN n_gram[1]
    ELSE n_gram[1] \o <<splitchar>> \o join(Tail(n_gram))

\* string.split(char)
RECURSIVE split_on(_, _)
split_on(string, char) ==
    LET at == {i \in 1..Len(string) : string[i] = char}
    IN  IF at = {}
        THEN <<string>>
        ELSE LET first == CHOOSE i \in at : \A j \in at : i <= j
             IN  <<SubSeq(string, 1, first - 1)>>
                 \o split_on(SubSeq(string, first + 1, Len(string)), char)

\* string.split(self.splitchar)
split(string) ==
    split_on(string, splitchar)

\* list(n_gram)[-length:], for 1 <= length
LastOf(n_gram, length) ==
    IF length >= Len(n_gram)
    THEN n_gram
    ELSE SubSeq(n_gram, Len(n_gram) - length + 1, Len(n_gram))

\* append to a deque that has no maxlen
deque_append_unbounded(n_gram, element, maxlen) ==
    Append(n_gram, element)

\* deque(maxlen=n).append(element)
deque_append(n_gram, element, maxlen) ==
    IF maxlen = 0
    THEN <<>>
    ELSE IF Len(n_gram) = maxlen
    THEN Append(Tail(n_gram), element)
    ELSE Append(n_gram, element)

\* the record of one call of the tree's insert, kept in the log
InsertCall(string, frequency, subsequences) ==
    [string |-> string, frequency |-> frequency, subsequences |-> subsequences]

\* _train that does not test for words out of the vocabulary
_train_whole(self, w, n_gram) ==
    IF /\ Truthy(self.must_contain)
       /\ ~(\E idx \in 1..Len(n_gram) : Contains(self.must_contain, n_gram[idx]))
    THEN w
    ELSE [tree |-> tst_insert(w.tree, join(n_gram)),
          log |-> Append(w.log, InsertCall(join(n_gram), 1, TRUE))]

\* _train that does not ensure the n-gram contains a must_contain word
_train_unfiltered(self, w, n_gram) ==
    LET oov == {idx \in 1..Len(n_gram) : ~Contains(self.vocabulary, n_gram[idx])}
        first == IF oov = {} THEN Len(n_gram) + 1
                 ELSE CHOOSE idx \in oov : \A other \in oov : idx <= other
        kept == SubSeq(n_gram, 1, first - 1)
    IN  [tree |-> tst_insert(w.tree, join(kept)),
         log |-> Append(w.log, InsertCall(join(kept), 1, TRUE))]

\* _train that leaves out every word out of the vocabulary and keeps the rest
_train_drop_oov(self, w, n_gram) ==
    LET InVocabulary(word) == Contains(self.vocabulary, word)
        kept == SelectSeq(n_gram, InVocabulary)
    IN  IF /\ Truthy(self.must_contain)
           /\ ~(\E idx \in 1..Len(kept) : Contains(self.must_contain, kept[idx]))
        THEN w
        ELSE [tree |-> tst_insert(w.tree, join(kept)),
              log |-> Append(w.log, InsertCall(join(kept), 1, TRUE))]

\* _train(n_gram); w is the tree and the log of the tree inserts made so far
_train(self, w, n_gram) ==
    LET oov == {idx \in 1..Len(n_gram) : ~Contains(self.vocabulary, n_gram[idx])}
        first == IF oov = {} THEN Len(n_gram) + 1
                 ELSE CHOOSE idx \in oov : \A other \in oov : idx <= other
        kept == SubSeq(n_gram, 1, first - 1)
    IN  IF /\ Truthy(self.must_contain)
           /\ ~(\E idx \in 1..Len(kept) : Contains(self.must_contain, kept[idx]))
        THEN w
        ELSE [tree |-> tst_insert(w.tree, join(kept)),
              log |-> Append(w.log, InsertCall(join(kept), 1, TRUE))]

\* for length in range(start, stop): self._train(list(n_gram)[-length:])
RECURSIVE train_suffixes(_, _, _, _, _)
train_suffixes(self, w, n_gram, start, stop) ==
    IF start >= stop
    THEN w
    ELSE train_suffixes(self, _train(self, w, LastOf(n_gram, start)),
                        n_gram, start + 1, stop)

\* the for loop of train without n_gram.clear() at a boundary
RECURSIVE train_loop_keep(_, _, _, _)
train_loop_keep(self, w, n_gram, sequence) ==
    IF sequence = <<>>
    THEN [w |-> w, n_gram |-> n_gram]
    ELSE LET element == Head(sequence)
         IN  IF element = boundary
             THEN LET not_trained == IF Len(n_gram) < self.n THEN 1 ELSE 0
                  IN  train_loop_keep(self,
                                      train_suffixes(self, w, n_gram, 1,
                                                     Len(n_gram) + not_trained),
                                      n_gram, Tail(sequence))
             ELSE LET window == deque_append(n_gram, element, self.n)
                  IN  IF Len(window) = self.n
                      THEN IF ~Contains(self.targets, element)
                           THEN train_loop_keep(self,
                                                _train(self, w,
                                                       SubSeq(window, 1,
                                                              Len(window) - 1)),
                                                window, Tail(sequence))
                           ELSE train_loop_keep(self, _train(self, w, window),
                                                window, Tail(sequence))
                      ELSE train_loop_keep(self, w, window, Tail(sequence))

\* the for loop of train that tests the new element against the vocabulary
\* where train tests it against the targets
RECURSIVE train_loop_vocabulary(_, _, _, _)
train_loop_vocabulary(self, w, n_gram, sequence) ==
    IF sequence = <<>>
    THEN [w |-> w, n_gram |-> n_gram]
    ELSE LET element == Head(sequence)
         IN  IF element = boundary
             THEN LET not_trained == IF Len(n_gram) < self.n THEN 1 ELSE 0
                  IN  train_loop_vocabulary(self,
                                            train_suffixes(self, w, n_gram, 1,
                                                           Len(n_gram) + not_trained),
                                            <<>>, Tail(sequence))
             ELSE LET window == deque_append(n_gram, element, self.n)
                  IN  IF Len(window) = self.n
                      THEN IF ~Contains(self.vocabulary, element)
                           THEN train_loop_vocabulary(self,
                                                      _train(self, w,
                                                             SubSeq(window, 1,
                                                                    Len(window) - 1)),
                                                      window, Tail(sequence))
                           ELSE train_loop_vocabulary(self, _train(self, w, window),
                                                      window, Tail(sequence))
                      ELSE train_loop_vocabulary(self, w, window, Tail(sequence))

\* the for loop of train over the rest of the sequence, from window n_gram:
\* the tree, the log and the window when the sequence is exhausted
RECURSIVE train_loop(_, _, _, _)
train_loop(self, w, n_gram, sequence) ==
    IF sequence = <<>>
    THEN [w |-> w, n_gram |-> n_gram]
    ELSE LET element == Head(sequence)
         IN  IF element = boundary
             THEN LET not_trained == IF Len(n_gram) < self.n THEN 1 ELSE 0
                  IN  train_loop(self,
                                 train_suffixes(self, w, n_gram, 1,
                                                Len(n_gram) + not_trained),
                                 <<>>, Tail(sequence))
             ELSE LET window == deque_append(n_gram, element, self.n)
                  IN  IF Len(window) = self.n
                      THEN IF ~Contains(self.targets, element)
                           THEN train_loop(self,
                                           _train(self, w,
                                                  SubSeq(window, 1, Len(window) - 1)),
                                           window, Tail(sequence))
                           ELSE train_loop(self, _train(self, w, window),
                                           window, Tail(sequence))
                      ELSE train_loop(self, w, window, Tail(sequence))

\* train that flushes the full last window again
train_flush_all(self, w, sequence) ==
    LET after == train_loop(self, w, <<>>, sequence)
    IN  train_suffixes(self, after.w, after.n_gram, 1, Len(after.n_gram) + 1)

\* train without the suffixes of the last window at the end of the sequence
train_unflushed(self, w, sequence) ==
    train_loop(self, w, <<>>, sequence).w

\* train that counts into a new, empty tree
train_afresh(self, w, sequence) ==
    LET after == train_loop(self, [tree |-> TernarySearchTree, log |-> w.log],
                            <<>>, sequence)
        n_gram == IF Len(after.n_gram) = self.n
                  THEN Tail(after.n_gram)
                  ELSE after.n_gram
    IN  train_suffixes(self, after.w, n_gram, 1, Len(n_gram) + 1)

\* train(sequence)
train(self, w, sequence) ==
    LET after == train_loop(self, w, <<>>, sequence)
        n_gram == IF Len(after.n_gram) = self.n
                  THEN Tail(after.n_gram)
                  ELSE after.n_gram
    IN  train_suffixes(self, after.w, n_gram, 1, Len(n_gram) + 1)

\* LanguageModel.frequency(n_gram)
lm_frequency(tree, n_gram) ==
    tst_frequency(tree, join(n_gram))

\* n_gram in model: LanguageModel.__contains__(n_gram) hands n_gram, a joined
\* string, to the tree
lm_contains(tree, n_gram) ==
    tst_contains(tree, n_gram)

\* a quotient frequency / total, kept as the pair; raised when total is 0
Quotient(num, den) ==
    [raised |-> den = 0, num |-> num, den |-> den]

\* _probability that divides by the total of the tree
_probability_of_total(tree, n_gram) ==
    IF lm_frequency(tree, n_gram) = 0
    THEN Quotient(0, 1)
    ELSE Quotient(lm_frequency(tree, n_gram), tree.total)

\* _probability(n_gram)
_probability(tree, n_gram) ==
    IF lm_frequency(tree, n_gram) = 0
    THEN Quotient(0, 1)
    ELSE Quotient(lm_frequency(tree, n_gram),
                  lm_frequency(tree, SubSeq(n_gram, 1, Len(n_gram) - 1)))

\* probability(sequence, predict_all=False): the last n tokens of the sequence
probability(self, tree, sequence) ==
    _probability(tree, LastOf(sequence, self.n))

\* LanguageModel.completions(prefix): the pairs the generator yields.  The
\* function holds a yield, so it is a generator function: without must_contain
\* its "return self._counts.completions(prefix)" ends the generator, and
\* nothing is yielded.  With must_contain the completions of the tree are
\* split at "#" (code point 35) and those without a must_contain word skipped.
lm_completions(self, tree, prefix) ==
    LET Kept(pair) ==
            LET completion_ == split_on(pair.completion, 35)
            IN  \E i \in 1..Len(completion_) :
                    Contains(self.must_contain, completion_[i])
    IN  IF ~Truthy(self.must_contain)
        THEN <<>>
        ELSE SelectSeq(tst_completions(tree, prefix), Kept)

\* LanguageModel.__iter__(): self.completions()
lm_iter(self, tree) ==
    lm_completions(self, tree, <<>>)

\* the results of all_target_probabilities for a sequence of completions
RECURSIVE target_probabilities(_, _, _, _, _)
target_probabilities(self, tree, return_n_gram, sizes, completions) ==
    IF completions = <<>>
    THEN <<>>
    ELSE LET n_gram == split(completions[1].completion)
             target == n_gram[Len(n_gram)]
             rest == target_probabilities(self, tree, return_n_gram, sizes,
                                          Tail(completions))
         IN  IF Len(n_gram) \notin sizes
             THEN rest
             ELSE IF Contains(self.targets, target)
             THEN <<[n_gram |-> IF return_n_gram THEN n_gram ELSE target,
                     frequency |-> completions[1].frequency,
                     probability |-> _probability(tree, n_gram)]>> \o rest
             ELSE rest

\* all_target_probabilities(return_n_gram, sizes): the tuples yielded; sizes
\* is the set of the sizes given, empty when none is
all_target_probabilities(self, tree, return_n_gram, sizes) ==
    target_probabilities(self, tree, return_n_gram,
                         IF sizes = {} THEN {self.n} ELSE sizes,
                         lm_completions(self, tree, <<>>))

\* insert that does not pass subsequences on (the terminal node only)
insert_terminal_only(w, ngram, frequency, is_string, subsequences) ==
    LET string == IF is_string THEN ngram ELSE join(ngram)
    IN  [tree |-> tst_insert_weighted(w.tree, string, frequency, FALSE),
         log |-> Append(w.log, InsertCall(string, frequency, subsequences))]

\* insert that always counts the subsequences
insert_with_subsequences(w, ngram, frequency, is_string, subsequences) ==
    LET string == IF is_string THEN ngram ELSE join(ngram)
    IN  [tree |-> tst_insert_weighted(w.tree, string, frequency, TRUE),
         log |-> Append(w.log, InsertCall(string, frequency, subsequences))]

\* insert that does not pass frequency on
insert_once(w, ngram, frequency, is_string, subsequences) ==
    LET string == IF is_string THEN ngram ELSE join(ngram)
    IN  [tree |-> tst_insert_weighted(w.tree, string, 1, subsequences),
         log |-> Append(w.log, InsertCall(string, frequency, subsequences))]

\* LanguageModel.insert(ngram, frequency, is_string, subsequences)
insert(w, ngram, frequency, is_string, subsequences) ==
    LET string == IF is_string THEN ngram ELSE join(ngram)
    IN  [tree |-> tst_insert_weighted(w.tree, string, frequency, subsequences),
         log |-> Append(w.log, InsertCall(string, frequency, subsequences))]

\* LanguageModel.insert_sequence(counts, is_string, subsequences)
RECURSIVE insert_sequence(_, _, _, _)
insert_sequence(w, counts, is_string, subsequences) ==
    IF counts = <<>>
    THEN w
    ELSE insert_sequence(insert(w, counts[1].ngram, counts[1].frequency,
                                is_string, subsequences),
                         Tail(counts), is_string, subsequences)

\* ---------------------------------------------------------- insertion_order
\* array[i] as Python indexes it: i counts from 0, a negative i from the end
At(array, i) ==
    IF i < 0 THEN array[Len(array) + i + 1] ELSE array[i + 1]

\* array[:stop]
SliceTo(array, stop) ==
    LET end == IF stop < 0 THEN Len(array) + stop ELSE stop
    IN  SubSeq(array, 1, IF end < 0 THEN 0
                         ELSE IF end > Len(array) THEN Len(array) ELSE end)

\* array[start:]
SliceFrom(array, start) ==
    LET begin == IF start < 0 THEN Len(array) + start ELSE start
    IN  SubSeq(array, (IF begin < 0 THEN 0 ELSE begin) + 1, Len(array))

\* np.searchsorted(array, value): the first index whose element is not less
\* than value, len(array) when there is none
searchsorted(array, value) ==
    LET at == {i \in 0..(Len(array) - 1) : At(array, i) >= value}
    IN  IF at = {}
        THEN Len(array)
        ELSE CHOOSE i \in at : \A j \in at : i <= j

\* median_element(array) of a non-empty array.  A probability p is the
\* integer p * 2 * frequencies.sum(), so that the halving in mid is exact
median_element(array) ==
    LET mid == (At(array, 0) + At(array, -1)) \div 2
        mid_idx == searchsorted(array, mid)
    IN  IF (At(array, mid_idx) - mid) >= (mid - At(array, mid_idx - 1))
        THEN mid_idx - 1
        ELSE mid_idx

\* what a generator has yielded, in order, and the exception that ended it
\* ("" when it was exhausted)
Yielded(items) == [yielded |-> items, raised |-> ""]

\* median_idx + idx + 1 for every idx yielded
RECURSIVE Shifted(_, _)
Shifted(indices, median_idx) ==
    IF indices = <<>>
    THEN <<>>
    ELSE <<median_idx + indices[1] + 1>> \o Shifted(Tail(indices), median_idx)

\* recursive_median(array).  Of an empty array median_element reads array[0]:
\* IndexError.  When array[median_idx + 1:] is the array itself the call
\* repeats without end, which Python ends with RecursionError; what the
\* repetitions yield before that is left out
RECURSIVE recursive_median(_)
recursive_median(array) ==
    IF Len(array) = 3
    THEN Yielded(<<1, 0, 2>>)
    ELSE IF Len(array) = 2
    THEN Yielded(<<0, 1>>)
    ELSE IF Len(array) = 1
    THEN Yielded(<<0>>)
    ELSE IF array = <<>>
    THEN [yielded |-> <<>>, raised |-> "IndexError"]
    ELSE LET median_idx == median_element(array)
             left == recursive_median(SliceTo(array, median_idx))
             rest == SliceFrom(array, median_idx + 1)
             right == IF rest = array
                      THEN [yielded |-> <<>>, raised |-> "RecursionError"]
                      ELSE recursive_median(rest)
         IN  IF left.raised # ""
             THEN [yielded |-> <<median_idx>> \o left.yielded,
                   raised |-> left.raised]
             ELSE [yielded |-> <<median_idx>> \o left.yielded
                                   \o Shifted(right.yielded, median_idx),
                   raised |-> right.raised]

\* string < other, as Python compares strings
RECURSIVE Before(_, _)
Before(string, other) ==
    IF other = <<>>
    THEN FALSE
    ELSE IF string = <<>>
    THEN TRUE
    ELSE IF string[1] # other[1]
    THEN string[1] < other[1]
    ELSE Before(Tail(string), Tail(other))

\* sorted(keys)
RECURSIVE sorted(_)
sorted(keys) ==
    IF keys = {}
    THEN <<>>
    ELSE LET first == CHOOSE key \in keys :
                          \A other \in keys \ {key} : Before(key, other)
         IN  <<first>> \o sorted(keys \ {first})

\* frequencies.sum()
RECURSIVE sum(_)
sum(array) ==
    IF array = <<>> THEN 0 ELSE array[1] + sum(Tail(array))

\* np.cumsum(frequencies / frequencies.sum()), every probability as the
\* integer p * 2 * frequencies.sum()
cumsum(array) ==
    [i \in 1..Len(array) |-> 2 * sum(SubSeq(array, 1, i))]

\* strings[idx] for every idx yielded
RECURSIVE StringsAt(_, _)
StringsAt(strings, indices) ==
    IF indices = <<>>
    THEN <<>>
    ELSE <<At(strings, indices[1])>> \o StringsAt(strings, Tail(indices))

\* the cumulative probabilities median_split_vocabulary computes from
\* frequencies, a Counter: a function from its keys to their counts
cumulative(frequencies) ==
    LET strings == sorted(DOMAIN frequencies)
    IN  cumsum([i \in 1..Len(strings) |-> frequencies[strings[i]]])

\* median_split_vocabulary(frequencies): the strings yielded and the exception
\* that ended the generator
median_split_vocabulary(frequencies) ==
    LET strings == sorted(DOMAIN frequencies)
        indices == recursive_median(cumulative(frequencies))
    IN  [yielded |-> StringsAt(strings, indices.yielded),
         raised |-> indices.raised]

\* ---------------------------------------------------------------- the state
\* tree:    the TernarySearchTree (the model's _counts)
\* log:     every call of the tree's insert so far, in order
\* trained: the sequences passed to train so far, in order
\* loaded:  the insert / insert_sequence calls so far: how many, and the
\*          tokens of their n-grams
\* queried: the queries made of the model so far: the operation and what it
\*          returned
\* order:   the Counter given to median_split_vocabulary, what the generator
\*          has yielded, and what median_element returned for the Counter's
\*          cumulative probabilities
VARIABLES tree, log, trained, loaded, order, queried

vars == <<tree, lm, log, trained, loaded, order, queried>>

\* ------------------------------------------------------------------- inputs
\* sequences over S of length 0..len
SeqsUpTo(S, len) ==
    UNION {[1..k -> S] : k \in 0..len}

\* the tokens streams are made of
Words == {A, AB}

\* the streams of the documentation: the train docstring, the boundary and
\* the vocabulary example
DocStreams == {<<A, B, C, D, E>>, <<A, B, boundary, C>>, <<A, B, C>>}

\* the split character and the filters a model is constructed with: with the
\* default "#" (35) none, a vocabulary, targets, must_contain, a vocabulary
\* and targets, and all three; with "_" (95) none and must_contain
Filters ==
    {[splitchar |-> 35, vocabulary |-> Container({}),
      targets |-> Container({}), must_contain |-> Container({})],
     [splitchar |-> 35, vocabulary |-> Container({A, B}),
      targets |-> Container({}), must_contain |-> Container({})],
     [splitchar |-> 35, vocabulary |-> Container({}),
      targets |-> Container({A}), must_contain |-> Container({})],
     [splitchar |-> 35, vocabulary |-> Container({}),
      targets |-> Container({}), must_contain |-> Container({A})],
     [splitchar |-> 35, vocabulary |-> Container({A, B}),
      targets |-> Container({A}), must_contain |-> Container({})],
     [splitchar |-> 35, vocabulary |-> Container({A, B}),
      targets |-> Container({A}), must_contain |-> Container({A})],
     [splitchar |-> 95, vocabulary |-> Container({}),
      targets |-> Container({}), must_contain |-> Container({})],
     [splitchar |-> 95, vocabulary |-> Container({}),
      targets |-> Container({}), must_contain |-> Container({A})]}

\* the characters of the keys inserted into a stand-alone tree: # A B
TreeChars == {35, 65, 66}

\* the n-grams passed to insert: 1..MaxGram tokens
LoadGrams == SeqsUpTo(Words, MaxGram) \ {<<>>}

\* tokens in a sequence of sequences
RECURSIVE Consumed(_)
Consumed(streams) ==
    IF streams = <<>> THEN 0 ELSE Len(streams[1]) + Consumed(Tail(streams))

\* tokens of the n-grams of an insert_sequence call, by their frequencies
RECURSIVE Weighed(_, _)
Weighed(grams, counts) ==
    IF grams = <<>>
    THEN 0
    ELSE Len(grams[1]) * counts[1].frequency + Weighed(Tail(grams), Tail(counts))

\* no insert / insert_sequence call
NotLoaded == [calls |-> 0, tokens |-> 0]

\* median_split_vocabulary and median_element not called
NoOrder == [frequencies |-> <<>>, called |-> FALSE, yielded |-> <<>>,
            raised |-> "", median |-> <<>>]

\* the first k single-letter strings "A", "B", ...
Letters(k) == {<<64 + i>> : i \in 1..k}

\* the counts are divided by their sum and added up in binary floating
\* point; that is exact, and so are mid and the differences median_element
\* compares, when the sum is a power of two
IsExact(frequencies) ==
    LET total == sum([i \in 1..Cardinality(DOMAIN frequencies) |->
                         frequencies[sorted(DOMAIN frequencies)[i]]])
    IN  \E k \in 0..total : 2 ^ k = total

\* the Counters given to median_split_vocabulary: 1..MaxKeys keys with counts
\* 0..MaxCount, not all of them zero, their sum a power of two
Counters ==
    {frequencies \in UNION {[Letters(k) -> 0..MaxCount] : k \in 1..MaxKeys} :
         IsExact(frequencies)}

\* tokens passed to the model so far
Passed ==
    Consumed(trained) + loaded.tokens

\* characters of the strings inserted so far
RECURSIVE Inserted(_)
Inserted(calls) ==
    IF calls = <<>> THEN 0 ELSE Len(calls[1].string) + Inserted(Tail(calls))

\* ------------------------------------------------------------------ actions
\* a model after construction, its tree empty
Init ==
    /\ \E n \in 1..MaxN, f \in Filters :
           lm = LanguageModel(n, f.splitchar, f.vocabulary, f.targets,
                              f.must_contain)
    /\ tree = TernarySearchTree
    /\ log = <<>>
    /\ trained = <<>>
    /\ loaded = NotLoaded
    /\ order = NoOrder
    /\ queried = <<>>

\* a tree after construction, used on its own
InitTree ==
    /\ lm = LanguageModel(1, 35, Container({}), Container({}), Container({}))
    /\ tree = TernarySearchTree
    /\ log = <<>>
    /\ trained = <<>>
    /\ loaded = NotLoaded
    /\ order = NoOrder
    /\ queried = <<>>

\* a Counter and an empty tree for its keys
InitOrder ==
    /\ lm = LanguageModel(1, 35, Container({}), Container({}), Container({}))
    /\ tree = TernarySearchTree
    /\ log = <<>>
    /\ trained = <<>>
    /\ loaded = NotLoaded
    /\ \E frequencies \in Counters :
           order = [NoOrder EXCEPT !.frequencies = frequencies]
    /\ queried = <<>>

\* median_element(array) for the cumulative probabilities of the Counter
MedianElement ==
    /\ order.median = <<>>
    /\ order' = [order EXCEPT
                    !.median = <<median_element(cumulative(order.frequencies))>>]
    /\ UNCHANGED <<tree, lm, log, trained, loaded, queried>>

\* list(median_split_vocabulary(frequencies))
MedianSplitVocabulary ==
    /\ ~order.called
    /\ LET strings == median_split_vocabulary(order.frequencies)
       IN  order' = [order EXCEPT !.called = TRUE,
                                  !.yielded = strings.yielded,
                                  !.raised = strings.raised]
    /\ UNCHANGED <<tree, lm, log, trained, loaded, queried>>

\* tree.insert(string) for the next string median_split_vocabulary yielded
InsertInOrder ==
    /\ order.called
    /\ Len(log) < Len(order.yielded)
    /\ tree' = tst_insert(tree, order.yielded[Len(log) + 1])
    /\ log' = Append(log, InsertCall(order.yielded[Len(log) + 1], 1, TRUE))
    /\ UNCHANGED <<lm, trained, loaded, order, queried>>

\* tree.insert(string)
TreeInsert(string) ==
    /\ Len(log) < MaxInserts
    /\ Inserted(log) + Len(string) <= MaxChars
    /\ tree' = tst_insert(tree, string)
    /\ log' = Append(log, InsertCall(string, 1, TRUE))
    /\ UNCHANGED <<lm, trained, loaded, order, queried>>

\* lm.train(sequence)
Train(sequence) ==
    /\ Len(trained) + loaded.calls < MaxCalls
    /\ \/ Passed + Len(sequence) <= MaxTokens
       \/ (trained = <<>> /\ loaded = NotLoaded /\ sequence \in DocStreams)
    /\ LET w == train(lm, [tree |-> tree, log |-> log], sequence)
       IN  /\ tree' = w.tree
           /\ log' = w.log
    /\ trained' = Append(trained, sequence)
    /\ UNCHANGED <<lm, loaded, order, queried>>

\* lm.insert(ngram, frequency, is_string, subsequences); tokens is the
\* n-gram as a sequence of tokens
Insert(tokens, ngram, frequency, is_string, subsequences) ==
    /\ Len(trained) + loaded.calls < MaxCalls
    /\ Passed + Len(tokens) * frequency <= MaxTokens
    /\ LET w == insert([tree |-> tree, log |-> log], ngram, frequency,
                       is_string, subsequences)
       IN  /\ tree' = w.tree
           /\ log' = w.log
    /\ loaded' = [calls |-> loaded.calls + 1,
                  tokens |-> loaded.tokens + Len(tokens) * frequency]
    /\ UNCHANGED <<lm, trained, order, queried>>

\* lm.insert_sequence(counts, is_string, subsequences)
InsertSequence(grams, counts, is_string, subsequences) ==
    /\ Len(trained) + loaded.calls < MaxCalls
    /\ Passed + Weighed(grams, counts) <= MaxTokens
    /\ LET w == insert_sequence([tree |-> tree, log |-> log], counts,
                                is_string, subsequences)
       IN  /\ tree' = w.tree
           /\ log' = w.log
    /\ loaded' = [calls |-> loaded.calls + 1,
                  tokens |-> loaded.tokens + Weighed(grams, counts)]
    /\ UNCHANGED <<lm, trained, order, queried>>

\* a query of the model: none of frequency, probability, completions,
\* all_target_probabilities and __contains__, nor _probability, the tree's
\* frequency, completions, __contains__, _search and _completions they call,
\* assigns to the tree or to a node
Query(operation, result) ==
    /\ Len(queried) < MaxQueries
    /\ queried' = Append(queried, [operation |-> operation, result |-> result])
    /\ UNCHANGED <<tree, lm, log, trained, loaded, order>>

\* lm.frequency(n_gram)
Frequency(n_gram) ==
    Query("frequency", lm_frequency(tree, n_gram))

\* lm.probability(sequence)
Probability(sequence) ==
    Query("probability", probability(lm, tree, sequence))

\* list(lm.completions(prefix))
Completions(prefix) ==
    Query("completions", lm_completions(lm, tree, prefix))

\* list(lm.all_target_probabilities(return_n_gram))
AllTargetProbabilities(return_n_gram) ==
    Query("all_target_probabilities",
          all_target_probabilities(lm, tree, return_n_gram, {}))

\* n_gram in lm
IsContained(n_gram) ==
    Query("__contains__", lm_contains(tree, n_gram))

TrainStep ==
    \E sequence \in SeqsUpTo(Words \cup {boundary}, MaxTokens) \cup DocStreams :
        Train(sequence)

InsertStep ==
    \E subsequences \in BOOLEAN, frequency \in 1..MaxWeight :
        \/ \E ngram \in LoadGrams :
               Insert(ngram, ngram, frequency, FALSE, subsequences)
        \/ \E ngram \in LoadGrams \cup {<<>>} :
               Insert(ngram, join(ngram), frequency, TRUE, subsequences)

InsertSequenceStep ==
    \E subsequences \in BOOLEAN, is_string \in BOOLEAN :
        \E grams \in SeqsUpTo(LoadGrams, 2) :
            \E frequencies \in [1..Len(grams) -> 1..MaxWeight] :
                InsertSequence(grams,
                               [i \in 1..Len(grams) |->
                                   [ngram |-> IF is_string THEN join(grams[i])
                                              ELSE grams[i],
                                    frequency |-> frequencies[i]]],
                               is_string, subsequences)

QueryStep ==
    \/ \E n_gram \in LoadGrams : Frequency(n_gram)
    \/ \E sequence \in LoadGrams : Probability(sequence)
    \/ \E prefix \in {<<>>} \cup Words : Completions(prefix)
    \/ \E return_n_gram \in BOOLEAN : AllTargetProbabilities(return_n_gram)
    \/ \E n_gram \in LoadGrams : IsContained(join(n_gram))

TreeInsertStep ==
    \E string \in SeqsUpTo(TreeChars, MaxChars) :
        TreeInsert(string)

Next ==
    \/ TrainStep
    \/ InsertStep
    \/ InsertSequenceStep

NextTrain == TrainStep

NextTree == TreeInsertStep

NextQuery ==
    \/ TrainStep
    \/ QueryStep

NextOrder ==
    \/ MedianElement
    \/ MedianSplitVocabulary
    \/ InsertInOrder

\* a LanguageModel: train, insert and insert_sequence in any order
Spec == Init /\ [][Next]_vars

\* a LanguageModel that is only trained
SpecTrain == Init /\ [][NextTrain]_vars

\* a LanguageModel that is trained and queried
SpecQuery == Init /\ [][NextQuery]_vars

\* a TernarySearchTree used on its own
SpecTree == InitTree /\ [][NextTree]_vars

\* a tree filled in the order median_split_vocabulary gives for a Counter
SpecOrder == InitOrder /\ [][NextOrder]_vars

\* ------------------------------------------------------- what was inserted
\* string is key, or starts with key immediately followed by the split
\* character
CountsFor(key, string) ==
    \/ string = key
    \/ /\ Len(string) > Len(key)
       /\ SubSeq(string, 1, Len(key)) = key
       /\ string[Len(key) + 1] = splitchar

\* the sum of the frequencies of the logged insert calls in the set picked
RECURSIVE SumOf(_, _)
SumOf(calls, picked) ==
    IF picked = {}
    THEN 0
    ELSE LET i == CHOOSE j \in picked : TRUE
         IN  calls[i].frequency + SumOf(calls, picked \ {i})

\* the insert calls so far whose string is exactly key
InsertsOf(key) ==
    {i \in 1..Len(log) : log[i].string = key}

\* the insert calls so far that count for key
InsertsFor(key) ==
    {i \in 1..Len(log) : CountsFor(key, log[i].string)}

\* every prefix, the empty one and the whole included, of the strings of
\* the insert calls
PrefixesOf(calls) ==
    UNION {{SubSeq(calls[i].string, 1, k) : k \in 0..Len(calls[i].string)} :
           i \in 1..Len(calls)}

\* the keys looked up after the calls: the prefixes, and each followed by
\* one more character
ProbesOf(calls) ==
    {<<>>} \cup PrefixesOf(calls)
    \cup {p \o <<c>> : p \in PrefixesOf(calls) \cup {<<>>}, c \in TreeChars}

Prefixes == PrefixesOf(log)

Probes == ProbesOf(log)

\* string is a joined n-gram: non-empty tokens, one split character between
\* two tokens
WellFormed(string) ==
    /\ string # <<>>
    /\ string[1] # splitchar
    /\ string[Len(string)] # splitchar
    /\ \A i \in 1..Len(string) - 1 :
           ~(string[i] = splitchar /\ string[i + 1] = splitchar)

\* the pairs of a sequence of completions, as a set
PairsOf(completions) ==
    {completions[i] : i \in 1..Len(completions)}

\* no key is yielded twice
NoDuplicate(completions) ==
    \A i, j \in 1..Len(completions) :
        i # j => completions[i].completion # completions[j].completion

\* ------------------------------------------------------------------ claims
\* C7: after any sequence of tree inserts, the frequency of a non-empty key
\* is the number of insert calls whose key is exactly that key or starts
\* with it immediately followed by the separator (so a key that is only a
\* character-level prefix of a stored key, or has no path, has frequency
\* 0), and the frequency of the empty key is the number of insert calls.
C7_FrequencyCountsInserts ==
    \A key \in Probes :
        tst_frequency(tree, key) =
            IF key = <<>> THEN Len(log) ELSE Cardinality(InsertsFor(key))

\* C7 witness: "A#B" and "AB" were inserted: "A" counts once, through its
\* subsequence only, "A#" ends in a node and counts 0, "B" has no path
C7_Witness ==
    /\ InsertsOf(<<65, 35, 66>>) # {}
    /\ InsertsOf(<<65, 66>>) # {}
    /\ InsertsOf(<<65>>) = {}
    /\ tst_frequency(tree, <<65>>) = 1
    /\ _search(<<65, 35>>, tree.root, tree.nodes) # None
    /\ tst_frequency(tree, <<65, 35>>) = 0
    /\ _search(<<66>>, tree.root, tree.nodes) = None
    /\ tst_frequency(tree, <<>>) = 2

\* C10 as stated: completions("") yields exactly the distinct inserted keys,
\* once each, each with the sum of the weights inserted for that very key
\* (stated for trees whose inserted keys are all joined n-grams).
C10_CompletionsAreInsertedKeys ==
    LET completions == tst_completions(tree, <<>>)
    IN  (\A i \in 1..Len(log) : WellFormed(log[i].string))
        => /\ NoDuplicate(completions)
           /\ PairsOf(completions) =
                  {[completion |-> log[i].string,
                    frequency |-> SumOf(log, InsertsOf(log[i].string))] :
                   i \in 1..Len(log)}

\* C10 amended: completions("") yields exactly once each non-empty key with
\* a positive count, that is every non-empty inserted key and every prefix
\* of an inserted key that ends immediately before a separator, each with
\* the sum of the weights of the inserts that count for it (the inserts of
\* that key and of the keys that start with it followed by the separator).
C10_CompletionsAreCountedKeys ==
    LET completions == tst_completions(tree, <<>>)
    IN  /\ NoDuplicate(completions)
        /\ PairsOf(completions) =
               {[completion |-> key,
                 frequency |-> SumOf(log, InsertsFor(key))] :
                key \in {p \in Prefixes : p # <<>> /\ InsertsFor(p) # {}}}

\* C10 witness: completions("") yields three keys or more, one of them never
\* inserted as a key of its own, one with a count of 2 or more
C10_Witness ==
    LET completions == tst_completions(tree, <<>>)
    IN  /\ Len(completions) >= 3
        /\ \E i \in 1..Len(completions) :
               InsertsOf(completions[i].completion) = {}
        /\ \E i \in 1..Len(completions) : completions[i].frequency >= 2

\* ------------------------------------------------------ what was trained on
\* the model was constructed without vocabulary, targets and must_contain
NoFilters ==
    /\ lm.vocabulary = ContainsEverything
    /\ lm.targets = ContainsEverything
    /\ ~Truthy(lm.must_contain)

\* the tokens of the sequences trained on, and the words
Tokens ==
    (Words \cup UNION {{trained[i][j] : j \in 1..Len(trained[i])} :
                       i \in 1..Len(trained)}) \ {boundary}

\* the contiguous occurrences of gram in sequence; those of the empty gram
\* are the tokens of the sequence that are not the boundary
Occurrences(gram, sequence) ==
    IF gram = <<>>
    THEN Cardinality({i \in 1..Len(sequence) : sequence[i] # boundary})
    ELSE Cardinality({i \in 1..Len(sequence) - Len(gram) + 1 :
                         SubSeq(sequence, i, i + Len(gram) - 1) = gram})

\* the occurrences of gram in all the sequences trained on
RECURSIVE OccurrencesIn(_, _)
OccurrencesIn(gram, sequences) ==
    IF sequences = <<>>
    THEN 0
    ELSE Occurrences(gram, sequences[1]) + OccurrencesIn(gram, Tail(sequences))

\* the runs of 1..n tokens of the sequences trained on that hold no boundary
Runs ==
    UNION {{SubSeq(trained[i], j, k) : j, k \in 1..Len(trained[i])} :
           i \in 1..Len(trained)}
    \cap {g \in SeqsUpTo(Tokens, lm.n) : g # <<>>}

\* the keys stored with a count
Stored ==
    {pair.completion : pair \in PairsOf(tst_completions(tree, <<>>))}

\* C1: in a model without filters, after any train calls, the frequency of
\* every sequence of 0..n tokens that holds no boundary token is the number
\* of its contiguous occurrences in the sequences trained on (an occurrence
\* cannot cross a boundary token or the end of a sequence); for the empty
\* sequence it is the number of tokens consumed that are not the boundary.
C1_FrequencyIsOccurrences ==
    NoFilters =>
        \A gram \in SeqsUpTo(Tokens, lm.n) :
            lm_frequency(tree, gram) = OccurrencesIn(gram, trained)

\* C1 witness: two train calls without filters, a boundary in one of the
\* sequences, and an n-gram of n >= 2 tokens that occurred twice
C1_Witness ==
    /\ NoFilters
    /\ lm.n >= 2
    /\ Len(trained) = 2
    /\ \E i \in 1..2 : \E j \in 1..Len(trained[i]) : trained[i][j] = boundary
    /\ \E gram \in [1..lm.n -> Tokens] : lm_frequency(tree, gram) = 2

\* the keys train inserts for a sequence of Len >= n tokens without boundary:
\* first the full windows in order
FullWindows(sequence, n) ==
    [i \in 1..Len(sequence) - n + 1 |-> join(SubSeq(sequence, i, i + n - 1))]

\* then the suffixes of 1..n-1 tokens of the last window
LastSuffixes(sequence, n) ==
    {join(LastOf(sequence, length)) : length \in 1..n - 1}

\* C2: without filters, one train call on a sequence of L >= n tokens that
\* holds no boundary token makes exactly L tree inserts: every full window of
\* n consecutive tokens once, in order, followed by the suffixes of n-1..1
\* tokens of the last window once each, and no window twice.
C2_TrainInsertsWindowsOnce ==
    [][\A sequence \in SeqsUpTo(Words, MaxTokens) \cup DocStreams :
           (/\ NoFilters
            /\ trained' = Append(trained, sequence)
            /\ Len(sequence) >= lm.n
            /\ \A i \in 1..Len(sequence) : sequence[i] # boundary)
           => LET L == Len(sequence)
                  made == [i \in 1..Len(log') - Len(log) |->
                              log'[Len(log) + i].string]
              IN  /\ Len(made) = L
                  /\ SubSeq(made, 1, L - lm.n + 1) = FullWindows(sequence, lm.n)
                  /\ {made[i] : i \in L - lm.n + 2..L} = LastSuffixes(sequence, lm.n)
      ]_vars

\* C2 witness: train(["A", "B", "C", "D", "E"]) with n = 3 inserted exactly
\* A#B#C, B#C#D, C#D#E and then E and D#E
C2_Witness ==
    /\ NoFilters
    /\ lm.n = 3
    /\ trained = <<<<A, B, C, D, E>>>>
    /\ SubSeq([i \in 1..Len(log) |-> log[i].string], 1, 3) =
           <<join(<<A, B, C>>), join(<<B, C, D>>), join(<<C, D, E>>)>>
    /\ {log[i].string : i \in 4..Len(log)} = {join(<<D, E>>), join(<<E>>)}
    /\ tree.total = 5

\* C3: after any train calls on any sequences, every key stored in the tree
\* is the join of a run of tokens of one sequence trained on that holds no
\* boundary token: no stored key contains the boundary token or joins a
\* token before a boundary token with one after it.
C3_NoKeyAcrossBoundary ==
    /\ \A key \in Stored : \E run \in Runs : key = join(run)
    /\ \A key \in Stored : \A i \in 1..Len(split(key)) : split(key)[i] # boundary

\* C3 witness: train(["A", "B", "</s>", "C"]) with n = 3 stored A, A#B, B
\* and C and nothing else
C3_Witness ==
    /\ NoFilters
    /\ lm.n = 3
    /\ trained = <<<<A, B, boundary, C>>>>
    /\ Stored = {A, join(<<A, B>>), B, C}

\* C6: after any train calls (tree inserts with subsequence counting), every
\* prefix of a stored key that ends immediately before a separator has a
\* frequency at least that of the key; every stored key is the join of
\* 1..n tokens, and the key without its last token has a frequency at least
\* that of the key.
C6_PrefixCountsDominate ==
    \A key \in Stored :
        /\ \A i \in 1..Len(key) :
               key[i] = splitchar
               => tst_frequency(tree, SubSeq(key, 1, i - 1))
                      >= tst_frequency(tree, key)
        /\ LET n_gram == split(key)
           IN  /\ Len(n_gram) \in 1..lm.n
               /\ \A i \in 1..Len(n_gram) : n_gram[i] \in Tokens
               /\ join(n_gram) = key
               /\ lm_frequency(tree, SubSeq(n_gram, 1, Len(n_gram) - 1))
                      >= lm_frequency(tree, n_gram)

\* C6 witness: a key of three tokens is stored, its two-token prefix has a
\* strictly larger frequency, and so has the one-token prefix of that
C6_Witness ==
    \E key \in Stored :
        /\ Len(split(key)) = 3
        /\ lm_frequency(tree, SubSeq(split(key), 1, 2)) > tst_frequency(tree, key)
        /\ lm_frequency(tree, SubSeq(split(key), 1, 1))
               > lm_frequency(tree, SubSeq(split(key), 1, 2))

\* ------------------------------------------------------------ what was loaded
\* every tree insert so far counted the subsequences (train always does)
AllSubsequences ==
    \A i \in 1..Len(log) : log[i].subsequences

\* every tree insert so far had frequency 1 (train always has)
AllOnce ==
    \A i \in 1..Len(log) : log[i].frequency = 1

\* the n-grams asked for: 1..n tokens
Grams ==
    SeqsUpTo(Tokens, lm.n) \ {<<>>}

\* n_gram without its last token
History(n_gram) ==
    SubSeq(n_gram, 1, Len(n_gram) - 1)

\* probability(n_gram) is a number in [0, 1], 0 when the frequency of n_gram
\* is 0 and else frequency(n_gram) / frequency(n_gram without its last token)
ProbabilityHolds(n_gram) ==
    LET p == probability(lm, tree, n_gram)
        count == tst_frequency(tree, join(n_gram))
        before == tst_frequency(tree, join(History(n_gram)))
    IN  /\ ~p.raised
        /\ 0 <= p.num /\ p.num <= p.den
        /\ count = 0 => p.num = 0
        /\ count # 0 => p.num * before = count * p.den

C11_ContainedIffCounted ==
    (\A i \in 1..Len(log) : WellFormed(log[i].string))
    => \A key \in Probes :
           tst_contains(tree, key) <=> tst_frequency(tree, key) > 0

\* ------------------------------------------------------------- the filters
\* the strings of the tree inserts so far, in order
Made ==
    [i \in 1..Len(log) |-> log[i].string]

\* the model of the vocabulary example: n = 3, vocabulary {A, B}, no other
\* filter, trained once on [A, B, C]
VocabularyExample ==
    /\ lm = LanguageModel(3, 35, Container({A, B}), Container({}), Container({}))
    /\ trained = <<<<A, B, C>>>>

\* C12 as stated: with vocabulary {A, B} and n = 3, train([A, B, C]) on an
\* empty model makes exactly one tree insert, of the key A#B: no key that
\* contains C is stored, the total is 1 and B is not inserted on its own.
C12_VocabularyInsertsOnce ==
    VocabularyExample
    => /\ Made = <<join(<<A, B>>)>>
       /\ tree.total = 1
       /\ \A key \in Stored : \A i \in 1..Len(split(key)) : split(key)[i] # C

\* C12 amended: with vocabulary {A, B} and n = 3, train([A, B, C]) on an
\* empty model makes exactly three tree inserts: A#B for the window
\* [A, B, C], the empty key for the suffix [C] (it only raises the total)
\* and B for the suffix [B, C]; the keys stored are A, A#B and B, none of
\* them contains C, and the total is 3.
C12_VocabularyTruncatesEachEvent ==
    VocabularyExample
    => /\ Made = <<join(<<A, B>>), <<>>, B>>
       /\ tree.total = 3
       /\ Stored = {A, join(<<A, B>>), B}
       /\ \A key \in Stored : \A i \in 1..Len(split(key)) : split(key)[i] # C

\* C12 witness: the vocabulary example was trained, B is counted once as a
\* key of its own and the empty sequence three times
C12_Witness ==
    /\ VocabularyExample
    /\ Len(log) = 3
    /\ lm_frequency(tree, <<B>>) = 1
    /\ lm_frequency(tree, <<>>) = 3

\* the longest prefix of n_gram whose tokens are all in the vocabulary
VocabularyPrefix(n_gram) ==
    LET oov == {i \in 1..Len(n_gram) : ~Contains(lm.vocabulary, n_gram[i])}
    IN  SubSeq(n_gram, 1, IF oov = {} THEN Len(n_gram)
                           ELSE (CHOOSE i \in oov : \A j \in oov : i <= j) - 1)

\* the i-th window of n tokens of a sequence
WindowAt(sequence, i) ==
    SubSeq(sequence, i, i + lm.n - 1)

\* n_gram without its last token when dropped, else n_gram
WithoutLast(n_gram, dropped) ==
    IF dropped THEN SubSeq(n_gram, 1, Len(n_gram) - 1) ELSE n_gram

\* the step is one train call, on a sequence of n tokens or more that holds
\* no boundary token, by a model without must_contain (every event trained
\* is then one tree insert, and the first inserts are those of the windows)
TrainsWindows ==
    /\ Len(trained') = Len(trained) + 1
    /\ ~Truthy(lm.must_contain)
    /\ LET sequence == trained'[Len(trained')]
       IN  /\ Len(sequence) >= lm.n
           /\ \A i \in 1..Len(sequence) : sequence[i] # boundary

\* C13 as stated: when a token makes the window reach n tokens, the event
\* trained is the window without that token if the token fails the
\* vocabulary and the full window in every other case, whatever targets is
\* configured (the key inserted is the event up to its first word out of
\* the vocabulary).
C13_WindowDroppedOnVocabulary ==
    [][TrainsWindows
       => LET sequence == trained'[Len(trained')]
          IN  \A i \in 1..Len(sequence) - lm.n + 1 :
                  LET window == WindowAt(sequence, i)
                      element == window[Len(window)]
                  IN  log'[Len(log) + i].string =
                          join(VocabularyPrefix(
                              WithoutLast(window,
                                          ~Contains(lm.vocabulary, element))))
      ]_vars

\* C13 amended: when a token makes the window reach n tokens, the event
\* trained is the window without that token if the token is not in targets,
\* and the full window if it is; the key inserted is the event up to its
\* first word out of the vocabulary, so that a last token that fails the
\* vocabulary is left out as well.
C13_WindowDroppedOnTargets ==
    [][TrainsWindows
       => LET sequence == trained'[Len(trained')]
          IN  \A i \in 1..Len(sequence) - lm.n + 1 :
                  LET window == WindowAt(sequence, i)
                      element == window[Len(window)]
                  IN  log'[Len(log) + i].string =
                          join(VocabularyPrefix(
                              WithoutLast(window,
                                          ~Contains(lm.targets, element))))
      ]_vars

\* C13 witness: a model with targets and n >= 2 was trained on a sequence
\* whose first window ends in a token that is not a target and whose second
\* window ends in a target: the first insert is the first window without its
\* last token, the second insert the full second window
C13_Witness ==
    /\ lm.targets # ContainsEverything
    /\ ~Truthy(lm.must_contain)
    /\ lm.n >= 2
    /\ Len(trained) = 1
    /\ Len(trained[1]) > lm.n
    /\ \A i \in 1..Len(trained[1]) : trained[1][i] # boundary
    /\ ~Contains(lm.targets, WindowAt(trained[1], 1)[lm.n])
    /\ Contains(lm.targets, WindowAt(trained[1], 2)[lm.n])
    /\ log[1].string = join(SubSeq(trained[1], 1, lm.n - 1))
    /\ log[2].string = join(WindowAt(trained[1], 2))

\* the train calls made so far, made by the model self on an empty tree
RECURSIVE TrainAll(_, _, _)
TrainAll(self, w, sequences) ==
    IF sequences = <<>>
    THEN w
    ELSE TrainAll(self, train(self, w, sequences[1]), Tail(sequences))

\* the events trained so far, as joined strings and in order: what the model
\* inserts when it has no vocabulary and no must_contain
Events ==
    LET self == [lm EXCEPT !.vocabulary = ContainsEverything,
                           !.must_contain = Container({})]
        w == TrainAll(self, [tree |-> TernarySearchTree, log |-> <<>>], trained)
    IN  [i \in 1..Len(w.log) |-> w.log[i].string]

\* the model was constructed with must_contain and no other filter
MustContainOnly ==
    /\ lm.vocabulary = ContainsEverything
    /\ lm.targets = ContainsEverything
    /\ Truthy(lm.must_contain)

\* a token of n_gram is in must_contain
HasMustContain(n_gram) ==
    \E i \in 1..Len(n_gram) : Contains(lm.must_contain, n_gram[i])

\* the joined string holds a token that is in must_contain
StringHasMustContain(string) ==
    HasMustContain(split(string))

\* C14: in a model with must_contain and no other filter, after any train
\* calls, every sequence of 1..n tokens that holds no boundary token and a
\* must_contain token has as its frequency the number of its contiguous
\* occurrences in the sequences trained on, and is contained in the model
\* when it occurs; the tree inserts made are those of the events that hold a
\* must_contain token, an event that holds none causes no insert.
C14_MustContainCounts ==
    MustContainOnly
    => /\ \A gram \in Grams :
              HasMustContain(gram)
              => /\ lm_frequency(tree, gram) = OccurrencesIn(gram, trained)
                 /\ OccurrencesIn(gram, trained) > 0
                        => lm_contains(tree, join(gram))
       /\ Made = SelectSeq(Events, StringHasMustContain)

\* C14 witness: a model with must_contain {A} and n >= 2 was trained, an
\* event without A caused no insert, and an n-gram of two tokens that holds
\* A occurred twice
C14_Witness ==
    /\ MustContainOnly
    /\ lm.n >= 2
    /\ Len(Made) < Len(Events)
    /\ \E gram \in Grams :
           /\ Len(gram) = 2
           /\ HasMustContain(gram)
           /\ OccurrencesIn(gram, trained) = 2
           /\ lm_frequency(tree, gram) = 2

\* the results of a sequence, as a set
Results(results) ==
    {results[i] : i \in 1..Len(results)}

\* the sizes asked for: none given (the default, n only) or some of 1..MaxN
SizesAsked ==
    SUBSET (1..MaxN)

\* C15: after training, all_target_probabilities(sizes) yields exactly one
\* result for every key stored with a positive count whose number of tokens
\* is in sizes (by default n only) and whose last token is in targets, with
\* the frequency of the key and its conditional probability; no such key is
\* left out, with and without must_contain.
C15_EveryTargetYielded ==
    \A sizes \in SizesAsked :
        LET results == all_target_probabilities(lm, tree, TRUE, sizes)
            asked == IF sizes = {} THEN {lm.n} ELSE sizes
            keys == {key \in Stored :
                        /\ Len(split(key)) \in asked
                        /\ Contains(lm.targets, split(key)[Len(split(key))])}
        IN  /\ Len(results) = Cardinality(keys)
            /\ Results(results) =
                   {[n_gram |-> split(key),
                     frequency |-> tst_frequency(tree, key),
                     probability |-> _probability(tree, split(key))] :
                    key \in keys}

\* the completions whose tokens, split at the split character of the model,
\* hold a must_contain token
WithMustContain(completions) ==
    LET Kept(pair) == StringHasMustContain(pair.completion)
    IN  SelectSeq(completions, Kept)

\* C16: LanguageModel.completions(prefix), and iterating the model (prefix
\* ""), yield exactly the pairs of the tree's completions(prefix) when
\* must_contain is not configured, and exactly those of them whose tokens,
\* split at the split character of the model, hold a must_contain token when
\* it is.
C16_CompletionsOfTheTree ==
    /\ \A prefix \in Prefixes \cup {<<>>} :
           lm_completions(lm, tree, prefix) =
               IF Truthy(lm.must_contain)
               THEN WithMustContain(tst_completions(tree, prefix))
               ELSE tst_completions(tree, prefix)
    /\ lm_iter(lm, tree) =
           IF Truthy(lm.must_contain)
           THEN WithMustContain(tst_completions(tree, <<>>))
           ELSE tst_completions(tree, <<>>)

\* the strings inserted for a sequence of events: each event up to its
\* first word out of the vocabulary, unless must_contain is configured and
\* what is left holds no must_contain word
RECURSIVE InsertsOfEvents(_)
InsertsOfEvents(events) ==
    IF events = <<>>
    THEN <<>>
    ELSE LET kept == VocabularyPrefix(split(events[1]))
         IN  (IF Truthy(lm.must_contain) /\ ~HasMustContain(kept)
              THEN <<>>
              ELSE <<join(kept)>>) \o InsertsOfEvents(Tail(events))

RECURSIVE Visited(_, _, _)
Visited(string, node, nodes) ==
    IF string = <<>> \/ node = None
    THEN 0
    ELSE IF Head(string) = nodes[node].char
    THEN IF Tail(string) = <<>>
         THEN 1
         ELSE 1 + Visited(Tail(string), nodes[node].eq, nodes)
    ELSE IF Head(string) < nodes[node].char
    THEN 1 + Visited(string, nodes[node].lo, nodes)
    ELSE 1 + Visited(string, nodes[node].hi, nodes)

\* the lookup depths of the Counter's keys in a tree, each key weighted by
\* its frequency; divided by frequencies.sum() it is the average depth
WeightedDepth(t, frequencies) ==
    LET strings == sorted(DOMAIN frequencies)
    IN  sum([i \in 1..Len(strings) |->
                frequencies[strings[i]] * Visited(strings[i], t.root, t.nodes)])

\* the tree after inserting strings one by one
RECURSIVE InsertAll(_, _)
InsertAll(t, strings) ==
    IF strings = <<>>
    THEN t
    ELSE InsertAll(tst_insert(t, strings[1]), Tail(strings))

\* every string median_split_vocabulary yielded has been inserted
InsertedInOrder ==
    /\ order.called
    /\ order.raised = ""
    /\ Len(log) = Len(order.yielded)

\* C17: for a Counter of single-symbol keys with positive counts, the tree
\* filled in median_split_vocabulary order has a frequency-weighted average
\* lookup depth no worse than the tree filled in lexicographic order
C17_MedianOrderNoDeeper ==
    (/\ InsertedInOrder
     /\ \A key \in DOMAIN order.frequencies : order.frequencies[key] > 0)
    => WeightedDepth(tree, order.frequencies)
           <= WeightedDepth(InsertAll(TernarySearchTree,
                                      sorted(DOMAIN order.frequencies)),
                            order.frequencies)

\* C18: for a non-empty Counter with non-negative counts, not all zero,
\* median_split_vocabulary terminates and yields every key exactly once:
\* recursive_median yields a permutation of 0..len-1 and raises nothing
C18_YieldsEveryKeyOnce ==
    order.called
    => LET indices == recursive_median(cumulative(order.frequencies))
           len == Cardinality(DOMAIN order.frequencies)
       IN  /\ order.raised = ""
           /\ indices.raised = ""
           /\ Len(indices.yielded) = len
           /\ \A idx \in 0..(len - 1) :
                  \E i \in 1..Len(indices.yielded) : indices.yielded[i] = idx
           /\ Len(order.yielded) = len
           /\ \A key \in DOMAIN order.frequencies :
                  \E i \in 1..Len(order.yielded) : order.yielded[i] = key

\* C19: for a non-decreasing cumulative array of length >= 2 median_element
\* returns an index within 0..len-1: of the insertion point of
\* mid = (first + last) / 2 and the index before it, the one whose value is
\* closer to mid, the earlier one on a tie
C19_MedianElementClosest ==
    (Cardinality(DOMAIN order.frequencies) >= 2 /\ order.median # <<>>)
    => LET array == cumulative(order.frequencies)
           mid == (array[1] + array[Len(array)]) \div 2
           point == searchsorted(array, mid)
           returned == order.median[1]
       IN  /\ returned \in 0..(Len(array) - 1)
           /\ point \in 1..(Len(array) - 1)
           /\ returned = IF array[point + 1] - mid < mid - array[point]
                         THEN point
                         ELSE point - 1

\* ------------------------------------------------------------- tree shape
\* the nodes at the key position of node: node and what its lo and hi links
\* lead to
RECURSIVE Level(_, _)
Level(node, nodes) ==
    IF node = None
    THEN {}
    ELSE {node} \cup Level(nodes[node].lo, nodes) \cup Level(nodes[node].hi, nodes)

\* the nodes a key position starts at: the root and every eq child
Tops(t) ==
    {t.root} \cup {t.nodes[node].eq : node \in 1..Len(t.nodes)}

\* C21: in every tree reachable by inserts, every node reachable through a
\* node's lo link at the same key position holds a smaller symbol, every node
\* reachable through its hi link a greater one, and no two nodes at the same
\* position under the same parent path hold the same symbol
C21_NodesOrdered ==
    /\ \A node \in 1..Len(tree.nodes) :
           /\ \A below \in Level(tree.nodes[node].lo, tree.nodes) :
                  tree.nodes[below].char < tree.nodes[node].char
           /\ \A above \in Level(tree.nodes[node].hi, tree.nodes) :
                  tree.nodes[above].char > tree.nodes[node].char
    /\ \A top \in Tops(tree) :
           \A node, other \in Level(top, tree.nodes) :
               tree.nodes[node].char = tree.nodes[other].char => node = other

\* a node with a lo and a hi child, one of them with a child of its own, and
\* a node with the same symbol at another position
C21_Witness ==
    \E node, child, other \in 1..Len(tree.nodes) :
        /\ tree.nodes[node].lo # None
        /\ tree.nodes[node].hi # None
        /\ child \in {tree.nodes[node].lo, tree.nodes[node].hi}
        /\ tree.nodes[child].eq # None
        /\ other # node
        /\ tree.nodes[other].char = tree.nodes[node].char

\* ------------------------------------------------- completions of a prefix
\* key is prefix followed by at least one symbol
Extends(key, prefix) ==
    /\ Len(key) > Len(prefix)
    /\ SubSeq(key, 1, Len(prefix)) = prefix

\* C22: for a non-empty prefix, completions(prefix) yields exactly once each
\* key with a positive count that is the prefix followed by at least one
\* symbol, with its count, yields nothing else, and yields nothing when the
\* prefix has no path in the tree; the enumeration is a function of the tree
\* and the prefix, so a second call yields the same from the beginning
C22_CompletionsExtendPrefix ==
    \A prefix \in Probes \ {<<>>} :
        LET completions == tst_completions(tree, prefix)
        IN  /\ NoDuplicate(completions)
            /\ PairsOf(completions) =
                   {[completion |-> key,
                     frequency |-> tst_frequency(tree, key)] :
                    key \in {probe \in Probes :
                                /\ Extends(probe, prefix)
                                /\ tst_frequency(tree, probe) > 0}}
            /\ (_search(prefix, tree.root, tree.nodes) = None
                => completions = <<>>)

\* completions(prefix) yields two keys or more for a non-empty prefix that
\* has a count itself, a longer key with a path and no count is left out,
\* and another prefix has no path
C22_Witness ==
    \E prefix \in Probes \ {<<>>} :
        /\ Len(tst_completions(tree, prefix)) >= 2
        /\ tst_frequency(tree, prefix) > 0
        /\ \E key \in Prefixes :
               /\ Extends(key, prefix)
               /\ tst_frequency(tree, key) = 0
        /\ \E other \in Probes :
               _search(other, tree.root, tree.nodes) = None

\* ------------------------------------------------------- frame and effect
\* every node of the tree is still there afterwards, with its symbol, its
\* links where it had any, and a count that is not less; the root and the
\* total likewise
Grown ==
    /\ tree'.total >= tree.total
    /\ Len(tree'.nodes) >= Len(tree.nodes)
    /\ (tree.root # None => tree'.root = tree.root)
    /\ \A node \in 1..Len(tree.nodes) :
           /\ tree'.nodes[node].char = tree.nodes[node].char
           /\ tree'.nodes[node].count >= tree.nodes[node].count
           /\ (tree.nodes[node].lo # None
               => tree'.nodes[node].lo = tree.nodes[node].lo)
           /\ (tree.nodes[node].eq # None
               => tree'.nodes[node].eq = tree.nodes[node].eq)
           /\ (tree.nodes[node].hi # None
               => tree'.nodes[node].hi = tree.nodes[node].hi)

Reordered(permutation) ==
    InsertAll(TernarySearchTree,
              [i \in 1..Len(log) |-> log[permutation[i]].string])

\* C24: the result of every frequency query and the set of (key, count)
\* pairs of completions("") depend on the multiset of the inserted keys only:
\* the same insert calls in any other order give a tree with the same
\* frequency for every key and the same completions
C24_OrderOfInsertsIrrelevant ==
    \A permutation \in Permutations(1..Len(log)) :
        LET other == Reordered(permutation)
        IN  /\ \A key \in Probes :
                   tst_frequency(other, key) = tst_frequency(tree, key)
            /\ PairsOf(tst_completions(other, <<>>))
                   = PairsOf(tst_completions(tree, <<>>))

\* as many insert calls as can be, of different non-empty keys, and an order
\* of them that gives a tree of another shape
C24_Witness ==
    /\ Len(log) = MaxInserts
    /\ \A i, j \in 1..Len(log) : log[i].string = log[j].string => i = j
    /\ \A i \in 1..Len(log) : log[i].string # <<>>
    /\ \E permutation \in Permutations(1..Len(log)) :
           LET other == Reordered(permutation)
           IN  \E node \in 1..Len(tree.nodes) :
                   other.nodes[node].char # tree.nodes[node].char

\* --------------------------------------------------- the window and calls
\* the sequences as one stream, a boundary token between two of them
RECURSIVE AsOneStream(_)
AsOneStream(sequences) ==
    IF sequences = <<>>
    THEN <<>>
    ELSE IF Len(sequences) = 1
    THEN sequences[1]
    ELSE sequences[1] \o <<boundary>> \o AsOneStream(Tail(sequences))

\* the model after a single train call on an empty tree
TrainedOnce(sequence) ==
    train(lm, [tree |-> TernarySearchTree, log |-> <<>>], sequence)

\* the tree of w has the same frequency as the model's tree for every key
\* looked up after the inserts of either
SameFrequencies(w) ==
    \A key \in Probes \cup ProbesOf(w.log) :
        tst_frequency(w.tree, key) = tst_frequency(tree, key)

\* C25: the window does not carry over between train calls: the train calls
\* made leave the model with the same frequency for every key as one call of
\* train on their streams with a boundary token between them, and a boundary
\* token at the end of a stream changes nothing
C25_CallsAreBoundaries ==
    /\ SameFrequencies(TrainedOnce(AsOneStream(trained)))
    /\ SameFrequencies(TrainedOnce(AsOneStream(trained) \o <<boundary>>))
    /\ SameFrequencies(TrainAll(lm,
                                [tree |-> TernarySearchTree, log |-> <<>>],
                                [i \in 1..Len(trained) |->
                                    trained[i] \o <<boundary>>]))

\* two train calls of a model with n >= 2 and without filters, the first
\* stream ending in a full window, the second not empty, neither with a
\* boundary token
C25_Witness ==
    /\ Len(trained) = 2
    /\ lm.n >= 2
    /\ lm.vocabulary = ContainsEverything
    /\ lm.targets = ContainsEverything
    /\ ~Truthy(lm.must_contain)
    /\ Len(trained[1]) >= lm.n
    /\ trained[2] # <<>>
    /\ \A i \in 1..2 : \A j \in 1..Len(trained[i]) : trained[i][j] # boundary
====
